---- MODULE Spec2Model ----
(***************************************************************************)
(* Document analyzer service (app/main.py): one DocumentAnalyzer shared by *)
(* the FastAPI handlers GET /, POST /analyze and GET /query, its in-memory *)
(* FAISS index and the index directory "vectorstore" on disk.              *)
(*                                                                         *)
(* The handlers are coroutines on one event loop.  analyze_document        *)
(* suspends at its single await (file.read()); everything after it, and    *)
(* the whole of query_documents and read_root, runs without giving up the  *)
(* loop.  The variable loop names the handler occupying the loop thread.   *)
(* A process restart (the environment's action) may strike between any two *)
(* steps of a handler.                                                     *)
(***************************************************************************)
EXTENDS Integers, Sequences, FiniteSets, TLC

\* ---------------------------------------------------------------- bounds
\* POST /analyze requests admitted over the whole run.
MaxRequests == 2
\* Process restarts over the whole run.
MaxRestarts == 1

\* ------------------------------------------------------- program constants
MaxUploadBytes == 1024 * 1024 * 10
ChunkSize == 1000
ChunkOverlap == 200

\* ----------------------------------------------------------------- inputs
Clients == {"c1", "c2"}
Filenames == {"a.txt", "b.txt"}
Questions == {"what is this document about?"}

\* An uploaded payload: its length in bytes, whether it decodes as UTF-8, and
\* the text it holds (single-byte characters without separators, so that the
\* decoded text has len characters).
Contents ==
    { [text |-> "empty",    len |-> 0,                  utf8 |-> TRUE],
      [text |-> "short",    len |-> ChunkSize,          utf8 |-> TRUE],
      [text |-> "long",     len |-> 2 * ChunkSize - ChunkOverlap + 1, utf8 |-> TRUE],
      [text |-> "binary",   len |-> 7,                  utf8 |-> FALSE],
      [text |-> "binmax",   len |-> MaxUploadBytes,     utf8 |-> FALSE],
      [text |-> "huge",     len |-> MaxUploadBytes + 1, utf8 |-> TRUE],
      [text |-> "hugebin",  len |-> MaxUploadBytes + 1, utf8 |-> FALSE] }

NoContent == [text |-> "none", len |-> -1, utf8 |-> FALSE]
NoMetadata == <<>>
NoResponse == [status_code |-> 0]
NoIndex == [exists |-> FALSE, index |-> <<>>]
Idle == "idle"

Min(a, b) == IF a <= b THEN a ELSE b

VARIABLES
    vector_store,   \* analyzer.vector_store: sequence of documents
    disk,           \* the directory "vectorstore": [exists, index]
    epoch,          \* process incarnation
    loop,           \* the handler occupying the event loop, or Idle
    pc,             \* per client: position of its analyze_document call
    filename,       \* per client: file.filename
    content,        \* per client: what file.read() returned
    metadata,       \* per client: the metadata dict of the request
    chunks,         \* per client: split_text's result
    exc,            \* per client: the exception raised in the handler
    resp,           \* per client: the response returned
    last,           \* the response of the latest GET handler
    clock,          \* datetime.now()
    arrivals,       \* POST /analyze requests admitted so far
    overlap,        \* per client: history, another request was in flight with it
    unsaved         \* history: documents added since the index last matched the disk

vars == <<vector_store, disk, epoch, loop, pc, filename, content, metadata,
          chunks, exc, resp, last, clock, arrivals, overlap, unsaved>>

\* --------------------------------------------------------- pure functions

\* len(content) > 1024 * 1024 * 10
TooLarge(c) == c.len > MaxUploadBytes

\* content.decode("utf-8") raises UnicodeDecodeError
DecodeFails(c) == ~c.utf8

\* Variant: the decoding is tried before the size check.
ValidateDecodeFirst(c) ==
    IF DecodeFails(c) THEN "not_utf8"
    ELSE IF TooLarge(c) THEN "too_large"
    ELSE "ok"

\* Variant: undecodable bytes are dropped instead of rejected.
ValidateLenient(c) ==
    IF TooLarge(c) THEN "too_large" ELSE "ok"

\* The checks of analyze_document, in the code's order.
Validate(c) ==
    IF TooLarge(c) THEN "too_large"
    ELSE IF DecodeFails(c) THEN "not_utf8"
    ELSE "ok"

\* RecursiveCharacterTextSplitter(chunk_size, chunk_overlap).split_text on a
\* text without separators: windows of chunk_size characters, each starting
\* chunk_size - chunk_overlap after the previous one, up to the end of the text.
NumChunks(n) ==
    IF n = 0 THEN 0
    ELSE IF n <= ChunkSize THEN 1
    ELSE 1 + ((n - ChunkSize) + (ChunkSize - ChunkOverlap) - 1)
                 \div (ChunkSize - ChunkOverlap)

SplitText(c) ==
    [k \in 1..NumChunks(c.len) |->
        [text |-> c.text,
         from |-> (k - 1) * (ChunkSize - ChunkOverlap),
         to   |-> Min(c.len, (k - 1) * (ChunkSize - ChunkOverlap) + ChunkSize)]]

\* metadata = {"filename": ..., "timestamp": ..., "version": "1.0"}
Metadata(f, now) == [filename |-> f, timestamp |-> now, version |-> "1.0"]

\* Variant: only the first chunk gets the metadata.
MetadatasFirstOnly(cs, m) == [i \in 1..Len(cs) |-> IF i = 1 THEN m ELSE <<>>]

\* metadatas=[metadata for _ in chunks]
Metadatas(cs, m) == [i \in 1..Len(cs) |-> m]

\* Variant: the index is rebuilt from the new chunks alone.
AddTextsReplace(store, cs, ms) ==
    [i \in 1..Len(cs) |-> [page_content |-> cs[i], metadata |-> ms[i]]]

\* vector_store.add_texts(chunks, metadatas=...): appends one document per chunk.
AddTexts(store, cs, ms) ==
    store \o [i \in 1..Len(cs) |-> [page_content |-> cs[i], metadata |-> ms[i]]]

\* Variant: only the first document of the index is written.
SaveLocalFirstOnly(store) == [exists |-> TRUE, index |-> SubSeq(store, 1, 1)]

\* vector_store.save_local("vectorstore"): the directory now holds the index.
SaveLocal(store) == [exists |-> TRUE, index |-> store]

\* FAISS.load_local("vectorstore", embeddings)
LoadLocal(d) == d.index

\* Variant: the new index is created without the texts.
FromTextsEmpty(texts) == <<>>

\* FAISS.from_texts(["initialization"], embeddings)
FromTexts(texts) ==
    [i \in 1..Len(texts) |->
        [page_content |-> [text |-> texts[i].text, from |-> 0, to |-> texts[i].len],
         metadata |-> <<>>]]

Initialization == [text |-> "initialization", len |-> 14]

\* Variant: a new index is created whether or not the directory exists.
InitializeVectorStoreFresh(d) ==
    [i \in 1..1 |->
        [page_content |-> [text |-> "initialization", from |-> 0, to |-> 14],
         metadata |-> <<>>]]

InitializeVectorStore(d) ==
    IF d.exists THEN LoadLocal(d) ELSE FromTexts(<<Initialization>>)

\* Variant: a failed ingestion takes its chunks out of the index again.
AfterFailureRollback(store, cs) == SubSeq(store, 1, Len(store) - Len(cs))

\* process_document's except clause logs and re-raises: the index keeps what
\* add_texts put into it.
AfterFailure(store, cs) == store

\* Variant: every library call is awaited (run in a worker thread).
AwaitsEverywhere(step) == TRUE

\* Whether the handler gives up the event loop after a step: analyze_document
\* awaits file.read() and nothing else.
Awaits(step) == step = "receive"

\* The responses.
SizeError ==
    [status_code |-> 400, error |-> <<"File too large. Maximum size is 10MB">>]

DecodeError ==
    [status_code |-> 400, error |-> <<"File must be a valid text document">>]

\* Variant: a generic message without the exception's text.
ErrorResponseGeneric(prefix, e) == [status_code |-> 500, error |-> <<prefix>>]

ErrorResponse(prefix, e) == [status_code |-> 500, error |-> <<prefix, e>>]

Success(m, now) ==
    [status_code |-> 200,
     content |-> [status |-> "success", timestamp |-> now, metadata |-> m,
                  analysis |-> "analysis"]]

\* ------------------------------------------------------------------ state

Init ==
    /\ disk = NoIndex
    /\ vector_store = InitializeVectorStore(NoIndex)
    /\ epoch = 0
    /\ loop = Idle
    /\ pc = [r \in Clients |-> "idle"]
    /\ filename = [r \in Clients |-> ""]
    /\ content = [r \in Clients |-> NoContent]
    /\ metadata = [r \in Clients |-> NoMetadata]
    /\ chunks = [r \in Clients |-> <<>>]
    /\ exc = [r \in Clients |-> "none"]
    /\ resp = [r \in Clients |-> NoResponse]
    /\ last = NoResponse
    /\ clock = 0
    /\ arrivals = 0
    /\ overlap = [r \in Clients |-> FALSE]
    /\ unsaved = 0

InFlight(r) == pc[r] \in {"read", "add", "save", "qa"}

\* The loop after a step of r that does not end its handler.
After(step, r) == IF Awaits(step) THEN Idle ELSE r

\* r's handler may take its next step: the loop is free, or r holds it.
CanRun(r) == loop = Idle \/ loop = r

\* The handler of r returns response rs, having raised e on the way (or "none").
Return(r, e, rs) ==
    /\ pc' = [pc EXCEPT ![r] = "done"]
    /\ exc' = [exc EXCEPT ![r] = e]
    /\ resp' = [resp EXCEPT ![r] = rs]
    /\ loop' = Idle

\* ---------------------------------------------------------------- actions

\* POST /analyze arrives: the handler starts, logs and awaits file.read().
Receive(r, f) ==
    /\ pc[r] \in {"idle", "done"}
    /\ loop = Idle
    /\ arrivals < MaxRequests
    /\ arrivals' = arrivals + 1
    /\ pc' = [pc EXCEPT ![r] = "read"]
    /\ filename' = [filename EXCEPT ![r] = f]
    /\ content' = [content EXCEPT ![r] = NoContent]
    /\ metadata' = [metadata EXCEPT ![r] = NoMetadata]
    /\ chunks' = [chunks EXCEPT ![r] = <<>>]
    /\ exc' = [exc EXCEPT ![r] = "none"]
    /\ resp' = [resp EXCEPT ![r] = NoResponse]
    /\ overlap' = [q \in Clients |->
                     IF q = r THEN \E o \in Clients \ {r} : InFlight(o)
                     ELSE IF InFlight(q) THEN TRUE ELSE overlap[q]]
    /\ loop' = After("receive", r)
    /\ UNCHANGED <<vector_store, disk, epoch, last, clock, unsaved>>

\* file.read() raises: the outer handler answers 500.
ReadFails(r) ==
    /\ pc[r] = "read"
    /\ CanRun(r)
    /\ Return(r, "read_error", ErrorResponse("Upload error: ", "read_error"))
    /\ UNCHANGED <<vector_store, disk, epoch, filename, content, metadata, chunks,
                   last, clock, arrivals, overlap, unsaved>>

\* file.read() returns c; the size check, the decoding, the metadata and the
\* split follow without suspension.  datetime.now() is later than at any
\* earlier request: the handlers run one after another on the loop.
Prepare(r, c) ==
    /\ pc[r] = "read"
    /\ CanRun(r)
    /\ content' = [content EXCEPT ![r] = c]
    /\ CASE Validate(c) = "too_large" ->
              /\ Return(r, "none", SizeError)
              /\ UNCHANGED <<metadata, chunks, clock>>
         [] Validate(c) = "not_utf8" ->
              /\ Return(r, "none", DecodeError)
              /\ UNCHANGED <<metadata, chunks, clock>>
         [] OTHER ->
              /\ clock' = clock + 1
              /\ metadata' = [metadata EXCEPT ![r] = Metadata(filename[r], clock + 1)]
              /\ chunks' = [chunks EXCEPT ![r] = SplitText(c)]
              /\ pc' = [pc EXCEPT ![r] = "add"]
              /\ loop' = After("split", r)
              /\ UNCHANGED <<exc, resp>>
    /\ UNCHANGED <<vector_store, disk, epoch, filename, last, arrivals, overlap, unsaved>>

\* vector_store.add_texts succeeds.
AddTextsOk(r) ==
    /\ pc[r] = "add"
    /\ CanRun(r)
    /\ vector_store' = AddTexts(vector_store, chunks[r], Metadatas(chunks[r], metadata[r]))
    /\ unsaved' = unsaved + Len(chunks[r])
    /\ pc' = [pc EXCEPT ![r] = "save"]
    /\ loop' = After("add_texts", r)
    /\ UNCHANGED <<disk, epoch, filename, content, metadata, chunks, exc, resp, last,
                   clock, arrivals, overlap>>

\* vector_store.add_texts raises (the embedding call failed): nothing was added.
AddTextsFails(r) ==
    /\ pc[r] = "add"
    /\ CanRun(r)
    /\ Return(r, "embedding_error",
              ErrorResponse("Error processing document: ", "embedding_error"))
    /\ UNCHANGED <<vector_store, disk, epoch, filename, content, metadata, chunks,
                   last, clock, arrivals, overlap, unsaved>>

\* vector_store.save_local succeeds: the directory is overwritten.
SaveLocalOk(r) ==
    /\ pc[r] = "save"
    /\ CanRun(r)
    /\ disk' = SaveLocal(vector_store)
    /\ unsaved' = 0
    /\ pc' = [pc EXCEPT ![r] = "qa"]
    /\ loop' = After("save_local", r)
    /\ UNCHANGED <<vector_store, epoch, filename, content, metadata, chunks, exc, resp,
                   last, clock, arrivals, overlap>>

\* vector_store.save_local raises: the directory is as it was (the write is
\* taken as all-or-nothing; what FAISS leaves behind of a half-written index
\* is the library's matter).
SaveLocalFails(r) ==
    /\ pc[r] = "save"
    /\ CanRun(r)
    /\ vector_store' = AfterFailure(vector_store, chunks[r])
    /\ unsaved' = unsaved + Len(vector_store') - Len(vector_store)
    /\ Return(r, "save_error", ErrorResponse("Error processing document: ", "save_error"))
    /\ UNCHANGED <<disk, epoch, filename, content, metadata, chunks, last, clock,
                   arrivals, overlap>>

\* qa_chain.run(summary question) succeeds: process_document returns its result.
SummarizeOk(r) ==
    /\ pc[r] = "qa"
    /\ CanRun(r)
    /\ Return(r, "none", Success(metadata[r], clock))
    /\ UNCHANGED <<vector_store, disk, epoch, filename, content, metadata, chunks,
                   last, clock, arrivals, overlap, unsaved>>

\* qa_chain.run raises (the LLM call failed).
SummarizeFails(r) ==
    /\ pc[r] = "qa"
    /\ CanRun(r)
    /\ vector_store' = AfterFailure(vector_store, chunks[r])
    /\ unsaved' = unsaved + Len(vector_store') - Len(vector_store)
    /\ Return(r, "llm_error", ErrorResponse("Error processing document: ", "llm_error"))
    /\ UNCHANGED <<disk, epoch, filename, content, metadata, chunks, last, clock,
                   arrivals, overlap>>

\* GET /query: the chain reads the index and asks the LLM; no await inside.
QueryOk(q) ==
    /\ loop = Idle
    /\ last' = [status_code |-> 200, content |-> [question |-> q, answer |-> "answer"]]
    /\ UNCHANGED <<vector_store, disk, epoch, loop, pc, filename, content, metadata,
                   chunks, exc, resp, clock, arrivals, overlap, unsaved>>

QueryFails(q) ==
    /\ loop = Idle
    /\ last' = ErrorResponse("Error querying documents: ", "llm_error")
    /\ UNCHANGED <<vector_store, disk, epoch, loop, pc, filename, content, metadata,
                   chunks, exc, resp, clock, arrivals, overlap, unsaved>>

\* GET /: the static page.
ReadRoot ==
    /\ loop = Idle
    /\ last' = [status_code |-> 200, content |-> [html |-> "HTML_TEMPLATE"]]
    /\ UNCHANGED <<vector_store, disk, epoch, loop, pc, filename, content, metadata,
                   chunks, exc, resp, clock, arrivals, overlap, unsaved>>

\* The process is stopped (at any point of any handler) and started again:
\* DocumentAnalyzer() runs initialize_vector_store.  Requests in flight are
\* gone with their connections; responses already returned stay returned.
Restart ==
    /\ epoch < MaxRestarts
    /\ epoch' = epoch + 1
    /\ vector_store' = InitializeVectorStore(disk)
    /\ loop' = Idle
    /\ pc' = [r \in Clients |-> IF InFlight(r) THEN "idle" ELSE pc[r]]
    /\ filename' = [r \in Clients |-> IF InFlight(r) THEN "" ELSE filename[r]]
    /\ content' = [r \in Clients |-> IF InFlight(r) THEN NoContent ELSE content[r]]
    /\ metadata' = [r \in Clients |-> IF InFlight(r) THEN NoMetadata ELSE metadata[r]]
    /\ chunks' = [r \in Clients |-> IF InFlight(r) THEN <<>> ELSE chunks[r]]
    /\ overlap' = [r \in Clients |-> IF InFlight(r) THEN FALSE ELSE overlap[r]]
    /\ unsaved' = 0
    /\ UNCHANGED <<disk, exc, resp, last, clock, arrivals>>

Next ==
    \/ \E r \in Clients, f \in Filenames : Receive(r, f)
    \/ \E r \in Clients : ReadFails(r)
    \/ \E r \in Clients, c \in Contents : Prepare(r, c)
    \/ \E r \in Clients : AddTextsOk(r)
    \/ \E r \in Clients : AddTextsFails(r)
    \/ \E r \in Clients : SaveLocalOk(r)
    \/ \E r \in Clients : SaveLocalFails(r)
    \/ \E r \in Clients : SummarizeOk(r)
    \/ \E r \in Clients : SummarizeFails(r)
    \/ \E q \in Questions : QueryOk(q)
    \/ \E q \in Questions : QueryFails(q)
    \/ ReadRoot
    \/ Restart

Spec == Init /\ [][Next]_vars

\* --------------------------------------------------------------- claims

IsPrefix(s, t) == Len(s) <= Len(t) /\ SubSeq(t, 1, Len(s)) = s

Range(s) == {s[i] : i \in DOMAIN s}

\* The documents request r stands for: one per chunk, each with r's metadata.
DocumentsOf(r) ==
    [i \in 1..Len(chunks[r]) |-> [page_content |-> chunks[r][i], metadata |-> metadata[r]]]

Present(r, store) == \A i \in DOMAIN chunks[r] : DocumentsOf(r)[i] \in Range(store)

TenMB == 10 * 1024 * 1024

\* file.read() returned r's payload.
WasRead(r) == content[r] # NoContent

\* A step of r's handler (within one process).
StepOf(r) == pc'[r] # pc[r] /\ epoch' = epoch

IndexUnchanged == vector_store' = vector_store /\ disk' = disk

Answered(r, code) == pc[r] = "done" /\ resp[r].status_code = code

\* C1: a request whose payload (as read) is longer than 10 MB, valid UTF-8 or
\* not, is answered with the 400 'File too large' response, and no step of its
\* handler changes the in-memory index or the index on disk.
C1_OversizedRejected ==
    /\ [](\A r \in Clients :
            (pc[r] = "done" /\ WasRead(r) /\ content[r].len > TenMB)
                => resp[r] = [status_code |-> 400,
                              error |-> <<"File too large. Maximum size is 10MB">>])
    /\ [][\A r \in Clients :
            (StepOf(r) /\ (pc'[r] = "read" \/ content'[r].len > TenMB))
                => IndexUnchanged]_vars

\* C1 witness: an oversized payload that is not even UTF-8 got the size error
\* while the index held ingested documents, in memory and on disk.
C1_Witness ==
    \E r \in Clients :
        /\ Answered(r, 400)
        /\ content[r].len > TenMB /\ ~content[r].utf8
        /\ resp[r] = SizeError
        /\ disk.exists /\ Len(disk.index) > 1 /\ Len(vector_store) > 1

\* C2 as stated: every request whose payload is not valid UTF-8 is answered
\* with the 400 'File must be a valid text document' response.
C2_Original ==
    \A r \in Clients :
        (pc[r] = "done" /\ WasRead(r) /\ ~content[r].utf8)
            => resp[r] = [status_code |-> 400,
                          error |-> <<"File must be a valid text document">>]

\* C2 amended: a request whose payload (as read) is not valid UTF-8 and not
\* longer than 10 MB is answered with the 400 decode-error response, and no
\* step of its handler changes the in-memory index or the index on disk.
C2_NonUtf8Rejected ==
    /\ [](\A r \in Clients :
            (pc[r] = "done" /\ WasRead(r) /\ ~content[r].utf8 /\ content[r].len <= TenMB)
                => resp[r] = [status_code |-> 400,
                              error |-> <<"File must be a valid text document">>])
    /\ [][\A r \in Clients :
            (StepOf(r) /\ (pc'[r] = "read" \/ (content'[r] # NoContent /\ ~content'[r].utf8)))
                => IndexUnchanged]_vars

\* C2 witness: a payload of exactly 10 MB that is not UTF-8 got the decode
\* error while the index held ingested documents.
C2_Witness ==
    \E r \in Clients :
        /\ Answered(r, 400)
        /\ content[r].len = TenMB /\ ~content[r].utf8
        /\ resp[r] = DecodeError
        /\ disk.exists /\ Len(disk.index) > 1 /\ Len(vector_store) > 1

\* C3: within a process the index changes only by a request's add_texts, which
\* appends exactly the splitter's chunks of that request's text, in order,
\* each with the request's own {filename, timestamp, version} record; the
\* record stays as built while the request is served; a request answered 200
\* has its documents in the index as one block.
C3_ChunksAndMetadata ==
    /\ [][(vector_store' # vector_store /\ epoch' = epoch)
            => \E r \in Clients :
                 /\ pc[r] = "add" /\ pc'[r] = "save"
                 /\ chunks[r] = SplitText(content[r])
                 /\ DOMAIN metadata[r] = {"filename", "timestamp", "version"}
                 /\ metadata[r].filename = filename[r]
                 /\ metadata[r].version = "1.0"
                 /\ vector_store' = vector_store \o DocumentsOf(r)]_vars
    /\ [][\A r \in Clients :
            (pc[r] \in {"add", "save", "qa"} /\ epoch' = epoch)
                => metadata'[r] = metadata[r] /\ chunks'[r] = chunks[r]]_vars
    /\ [](\A r \in Clients :
            Answered(r, 200)
                => /\ resp[r].content.metadata = metadata[r]
                   /\ \E k \in 0..Len(vector_store) :
                        /\ k + Len(chunks[r]) <= Len(vector_store)
                        /\ SubSeq(vector_store, k + 1, k + Len(chunks[r])) = DocumentsOf(r))

\* C3 witness: two multi-chunk documents with different metadata were
\* ingested one after the other and the index is their chunks in order.
C3_Witness ==
    \E r, q \in Clients :
        /\ r # q
        /\ Answered(r, 200) /\ Answered(q, 200)
        /\ Len(chunks[r]) = 3 /\ Len(chunks[q]) = 3
        /\ metadata[r].filename # metadata[q].filename
        /\ vector_store = FromTexts(<<Initialization>>) \o DocumentsOf(r) \o DocumentsOf(q)

\* C4 as stated: a restart with a persisted index on disk, after requests that
\* all ran to their response, reloads as many entries as the index in memory
\* held just before.
C4_Original ==
    [][(epoch' # epoch /\ disk.exists /\ \A r \in Clients : ~InFlight(r))
          => Len(vector_store') = Len(vector_store)]_vars

\* C4 amended: a restart with a persisted index on disk reloads exactly the
\* index the last successful save_local wrote; it has as many entries as the
\* index in memory held just before, less the entries add_texts appended
\* since then (by a request that failed at save_local, or that the restart
\* interrupted before it).
C4_ReloadsLastSave ==
    [][(epoch' # epoch /\ disk.exists)
          => /\ vector_store' = disk.index
             /\ Len(vector_store') = Len(vector_store) - unsaved]_vars

\* C4 witness: after a restart the reloaded index is the one on disk, and it
\* lacks the chunks of a request that had failed at save_local.
C4_Witness ==
    \E r \in Clients :
        /\ epoch = 1
        /\ disk.exists /\ vector_store = disk.index /\ Len(vector_store) > 1
        /\ pc[r] = "done" /\ exc[r] = "save_error" /\ Len(chunks[r]) > 0
        /\ ~Present(r, vector_store)

\* C5: within one process every step, of any handler and whatever its
\* outcome, leaves the index in memory with its former entries in place:
\* the old index is a prefix of the new one.
C5_MonotoneIndex ==
    [][epoch' = epoch => IsPrefix(vector_store, vector_store')]_vars

\* C5 witness: the index has grown past a request that failed after
\* add_texts, and a query has failed, in the same process.
C5_Witness ==
    \E r, q \in Clients :
        /\ r # q /\ epoch = 0
        /\ Answered(r, 500) /\ exc[r] = "save_error" /\ Len(chunks[r]) > 0
        /\ Answered(q, 200) /\ Len(chunks[q]) > 0
        /\ last.status_code = 500
        /\ vector_store = FromTexts(<<Initialization>>) \o DocumentsOf(r) \o DocumentsOf(q)

\* C6 as stated (its premise): while one request is between add_texts and
\* save_local, another request in flight can take a step.
C6_Original ==
    \A r, q \in Clients :
        (r # q /\ pc[r] = "save" /\ pc[q] = "read")
            => ENABLED (ReadFails(q) \/ \E c \in Contents : Prepare(q, c))

\* C6 amended: a request that has left its await holds the event loop until
\* it returns, so no other handler runs between its add_texts and its
\* save_local; and whenever two requests have both been answered 200, the
\* chunks of both are in the index in memory and in the index on disk.
C6_NoLostUpdate ==
    /\ \A r \in Clients : pc[r] \in {"add", "save", "qa"} => loop = r
    /\ \A r, q \in Clients :
         (r # q /\ Answered(r, 200) /\ Answered(q, 200))
            => /\ Present(r, vector_store) /\ Present(q, vector_store)
               /\ disk.exists
               /\ Present(r, disk.index) /\ Present(q, disk.index)

\* C6 witness: two requests that were in flight together were both answered
\* 200 and the index, in memory and on disk, is the chunks of both.
C6_Witness ==
    \E r, q \in Clients :
        /\ r # q /\ overlap[r] /\ overlap[q]
        /\ Answered(r, 200) /\ Answered(q, 200)
        /\ Len(chunks[r]) > 1 /\ Len(chunks[q]) > 0
        /\ vector_store = FromTexts(<<Initialization>>) \o DocumentsOf(r) \o DocumentsOf(q)
        /\ disk.index = vector_store

\* C7: two valid requests in flight together, none of whose library calls
\* raised, are both answered (with 200) once both handlers have returned, and
\* then the chunks of at least one of them are in the index in memory and in
\* the index on disk.
C7_OneSurvives ==
    \A r, q \in Clients :
        (/\ r # q /\ overlap[r] /\ overlap[q]
         /\ pc[r] = "done" /\ pc[q] = "done"
         /\ WasRead(r) /\ content[r].utf8 /\ content[r].len <= TenMB
         /\ WasRead(q) /\ content[q].utf8 /\ content[q].len <= TenMB
         /\ exc[r] = "none" /\ exc[q] = "none")
            => /\ resp[r].status_code = 200 /\ resp[q].status_code = 200
               /\ disk.exists
               /\ \/ Present(r, vector_store) /\ Present(r, disk.index)
                  \/ Present(q, vector_store) /\ Present(q, disk.index)

\* C7 witness: two multi-chunk uploads in flight together, both answered 200.
C7_Witness ==
    \E r, q \in Clients :
        /\ r # q /\ overlap[r] /\ overlap[q] /\ epoch = 0
        /\ Answered(r, 200) /\ Answered(q, 200)
        /\ Len(chunks[r]) = 3 /\ Len(chunks[q]) = 1
        /\ Present(r, disk.index) /\ Present(q, disk.index)

\* C8: when save_local raises after add_texts, the request is answered 500,
\* its chunks stay at the end of the index in memory, and the disk is as it
\* was, without them; when the summary query raises after save_local, the
\* request is answered 500 although its chunks are at the end of the index in
\* memory and the same index is on disk.
C8_NoRollback ==
    [][\A r \in Clients :
         /\ (pc[r] = "save" /\ pc'[r] = "done")
              => /\ resp'[r].status_code = 500
                 /\ vector_store' = vector_store
                 /\ SubSeq(vector_store', Len(vector_store') - Len(chunks[r]) + 1,
                           Len(vector_store')) = DocumentsOf(r)
                 /\ disk' = disk
                 /\ disk'.exists => Len(disk'.index) <= Len(vector_store') - Len(chunks[r])
         /\ (pc[r] = "qa" /\ pc'[r] = "done" /\ exc'[r] # "none")
              => /\ resp'[r].status_code = 500
                 /\ vector_store' = vector_store
                 /\ SubSeq(vector_store', Len(vector_store') - Len(chunks[r]) + 1,
                           Len(vector_store')) = DocumentsOf(r)
                 /\ disk' = disk
                 /\ disk'.exists /\ disk'.index = vector_store']_vars

\* C8 witness: one request failed at the summary with its chunks stored in
\* memory and on disk, another failed at save_local, and the index in memory
\* differs from the index on disk.
C8_Witness ==
    \E r, q \in Clients :
        /\ r # q /\ epoch = 0
        /\ Answered(q, 500) /\ exc[q] = "llm_error" /\ Len(chunks[q]) > 0
        /\ Present(q, vector_store) /\ disk.exists /\ Present(q, disk.index)
        /\ Answered(r, 500) /\ exc[r] = "save_error" /\ Len(chunks[r]) > 0
        /\ Present(r, vector_store) /\ ~Present(r, disk.index)
        /\ vector_store # disk.index

\* C9: the index always holds at least one entry, in memory and in whatever
\* was written to disk; the first start creates it with the one placeholder
\* entry, and every later start loads the directory if it exists and
\* otherwise creates the one placeholder entry again.
C9_NeverEmpty ==
    /\ [](/\ Len(vector_store) >= 1
          /\ disk.exists => Len(disk.index) >= 1
          /\ (epoch = 0 /\ arrivals = 0)
                => vector_store =
                     <<[page_content |-> [text |-> "initialization", from |-> 0, to |-> 14],
                        metadata |-> <<>>]>>)
    /\ [][epoch' # epoch
            => vector_store' =
                 IF disk.exists THEN disk.index
                 ELSE <<[page_content |-> [text |-> "initialization", from |-> 0, to |-> 14],
                         metadata |-> <<>>]>>]_vars

\* C9 witness: a second process has loaded a persisted index of several
\* entries.
C9_Witness ==
    /\ epoch = 1 /\ arrivals > 0
    /\ disk.exists /\ Len(disk.index) > 1
    /\ vector_store = disk.index

\* C10: an exception raised by add_texts, save_local or the chain ends the
\* handler at once with the 500 response that carries the exception's text
\* (no second attempt, nothing escapes the handler); a failed query is
\* answered likewise; GET handlers leave the index in memory and on disk as
\* they were.
C10_FailuresBecome500 ==
    /\ [](\A r \in Clients :
            exc[r] \in {"embedding_error", "save_error", "llm_error"}
                => /\ pc[r] = "done"
                   /\ resp[r] = [status_code |-> 500,
                                 error |-> <<"Error processing document: ", exc[r]>>])
    /\ [](last.status_code = 500
            => last = [status_code |-> 500,
                       error |-> <<"Error querying documents: ", "llm_error">>])
    /\ [][\A r \in Clients :
            (exc'[r] # exc[r] /\ exc'[r] # "none") => pc[r] # "done" /\ pc'[r] = "done"]_vars
    /\ [][last' # last => IndexUnchanged /\ pc' = pc /\ epoch' = epoch]_vars

\* C10 witness: after a request failed in the embedding call and a query
\* failed, a later upload was ingested and answered 200.
C10_Witness ==
    \E r, q \in Clients :
        /\ r # q /\ epoch = 0
        /\ Answered(r, 500) /\ exc[r] = "embedding_error"
        /\ last.status_code = 500
        /\ Answered(q, 200) /\ Len(chunks[q]) > 0
        /\ metadata[r].timestamp < metadata[q].timestamp
        /\ Present(q, vector_store) /\ Present(q, disk.index)

====
